---------------------------- MODULE Spec2Model ----------------------------
(***************************************************************************)
(* A model of gui::SearchListItemDelegate                                  *)
(* (src/gui/search/search_list_item_delegate.cpp): the item delegate that  *)
(* paints one search result as a card and reports the cell size to the     *)
(* enclosing QListView.                                                    *)
(*                                                                         *)
(* The delegate keeps one field, m_pixmap.  Everything else it reads       *)
(* belongs to its surroundings: the geometry of the parent list view, the  *)
(* theme, the painter it is handed, the font metrics of the paint device   *)
(* and the list model behind the index.  Each handler runs to completion   *)
(* on the GUI thread, so each is one action; what a call did (the value it *)
(* returned, the drawing commands it issued) is recorded in the variables  *)
(* call, size, drawn and styled.                                           *)
(***************************************************************************)
EXTENDS Integers, Sequences, FiniteSets

VARIABLES
    m_pixmap,      \* SearchListItemDelegate::m_pixmap: "null" or "poster"
    imageReadable, \* whether QImageReader could read ./data/poster.jpg
    viewWidth,     \* parent()->geometry().width()
    themeDark,     \* theme.isDark()
    painter,       \* the QPainter's current state: clip, font, pen
    painterStack,  \* the QPainter's stack of saved states
    painter0,      \* the painter state the view handed out
    fontHeight,    \* QFontMetrics::height() of the two fonts paint measures
    labelWidth,    \* QFontMetrics::boundingRect(label).width(), DemiBold font
    crashed,       \* the process has faulted
    call,          \* the most recent handler call: its name and arguments
    size,          \* what the most recent sizeHint call did and returned
    drawn,         \* what the most recent paint call did
    styled         \* what the most recent initStyleOption call did

vars == <<m_pixmap, imageReadable, viewWidth, themeDark, painter, painterStack,
          painter0, fontHeight, labelWidth, crashed, call, size, drawn, styled>>

-----------------------------------------------------------------------------
(* Bounds of the model.                                                    *)

\* The widest parent view: past the last column threshold (4 * 360).
MaxViewWidth == 1450
\* The toolkit's default size hint is some QSize with sides 0..MaxToolkitSide.
MaxToolkitSide == 1
\* Font metrics: line heights are 1..MaxLineHeight.
MaxLineHeight == 2
\* Font metrics: label widths are 1..MaxLabelWidth.
MaxLabelWidth == 2

ViewWidths == 0..MaxViewWidth

-----------------------------------------------------------------------------
(* QRect, as Qt keeps it: the corners (x1, y1) and (x2, y2), inclusive.    *)

QRect(x, y, w, h) == [x1 |-> x, y1 |-> y, x2 |-> x + w - 1, y2 |-> y + h - 1]
RectWidth(r) == r.x2 - r.x1 + 1
RectHeight(r) == r.y2 - r.y1 + 1
SetWidth(r, w) == [r EXCEPT !.x2 = r.x1 + w - 1]
SetHeight(r, h) == [r EXCEPT !.y2 = r.y1 + h - 1]
Adjust(r, dx1, dy1, dx2, dy2) ==
    [x1 |-> r.x1 + dx1, y1 |-> r.y1 + dy1, x2 |-> r.x2 + dx2, y2 |-> r.y2 + dy2]
\* QRect(): the null rectangle.
NullRect == [x1 |-> 0, y1 |-> 0, x2 |-> -1, y2 |-> -1]

qMin(a, b) == IF a < b THEN a ELSE b

\* C++ division of ints: the quotient truncated toward zero.
CDiv(a, b) ==
    IF (a >= 0) = (b > 0) THEN (IF a >= 0 THEN a ELSE -a) \div (IF b > 0 THEN b ELSE -b)
    ELSE -((IF a >= 0 THEN a ELSE -a) \div (IF b > 0 THEN b ELSE -b))


-----------------------------------------------------------------------------
(* The program's constants.                                                *)

\* itemSize: constexpr int maxWidth = 360
maxWidth == 360
\* itemSize: constexpr int spacing = 18
spacing == 18
\* itemSize: constexpr int height = 210
height == 210
\* paint: path.addRoundedRect(rect, 4, 4)
CornerRadius == 4
\* paint: posterRect.setWidth(140)
PosterWidth == 140
\* paint: titleRect.setHeight(24)
TitleHeight == 24
\* paint: the padding and the gap used throughout
Padding == 8
\* paint: detailsFont.setPointSize(8)
SynopsisPointSize == 8
\* paint: metrics.height() * 5
SynopsisLines == 5
\* paint: metrics.height() * 3
DetailLines == 3

-----------------------------------------------------------------------------
(* The inputs of the handlers.                                             *)

\* QStyleOptionViewItem::ViewItemFeature
FeatureBits == {"WrapText", "Alternate", "HasCheckIndicator", "HasDisplay",
                "HasDecoration"}

\* The rows of the list model that hold an item record.
Rows == {0}

\* QModelIndex: a default-constructed index is invalid and has no model; a
\* valid index belongs to the SearchListModel.  The row past the last one has
\* no item record.
InvalidIndex == [valid |-> FALSE, model |-> "null", row |-> -1]
ValidIndexes == {[valid |-> TRUE, model |-> "SearchListModel", row |-> r] :
                     r \in Rows \cup {Cardinality(Rows)}}
Indexes == {InvalidIndex} \cup ValidIndexes

\* The cell rectangles the view lays out: the hinted cell of a four-column
\* view, a cell as narrow as the poster, and a cell too low for its content.
CellRects == {QRect(0, 0, 335, height), QRect(18, 18, PosterWidth, 66),
              QRect(0, 228, 335, 40)}

\* QStyleOptionViewItem: the fields the delegate reads.
Options == [rect : CellRects, selected : BOOLEAN,
            features : {{}, {"WrapText", "HasDisplay"}}]

\* The options initStyleOption is called on: the view's, before a cell's
\* rectangle and state are filled in.
StyleOptions == {o \in Options : o.rect = QRect(0, 0, 335, height) /\ ~o.selected}

\* The sizes QStyledItemDelegate::sizeHint may answer.
ToolkitSizes == [width : 0..MaxToolkitSide, height : 0..MaxToolkitSide]

NoCall == [name |-> "none", option |-> CHOOSE o \in Options : TRUE,
           index |-> InvalidIndex]
NoSize == [from |-> "none", width |-> 0, height |-> 0, columns |-> 0,
           geometryRead |-> FALSE, baseCalled |-> FALSE, baseArgs |-> <<>>,
           toolkit |-> [width |-> 0, height |-> 0]]

-----------------------------------------------------------------------------
(* SearchListItemDelegate::itemSize                                        *)

\* Columns with the thresholds taken inclusive.
ColumnsInclusive(w) ==
    LET c1 == 1
        c2 == IF w >= maxWidth * 2 THEN 2 ELSE c1
        c3 == IF w >= maxWidth * 3 THEN 3 ELSE c2
        c4 == IF w >= maxWidth * 4 THEN 4 ELSE c3
    IN  c4

\* The column count for a view of width w.
Columns(w) ==
    LET c1 == 1
        c2 == IF w > maxWidth * 2 THEN 2 ELSE c1
        c3 == IF w > maxWidth * 3 THEN 3 ELSE c2
        c4 == IF w > maxWidth * 4 THEN 4 ELSE c3
    IN  c4

\* itemSize counting one gap too few.
ItemSizeSpacingOff(w) ==
    LET columns == Columns(w)
    IN  [from |-> "itemSize",
         width |-> CDiv(w - (spacing * (columns + 1)), columns),
         height |-> height,
         columns |-> columns,
         geometryRead |-> TRUE,
         baseCalled |-> FALSE,
         baseArgs |-> <<>>,
         toolkit |-> [width |-> 0, height |-> 0]]

\* itemSize rounding the quotient up.
ItemSizeRoundUp(w) ==
    LET columns == Columns(w)
    IN  [from |-> "itemSize",
         width |-> CDiv(w - (spacing * (columns + 2)) + columns - 1, columns),
         height |-> height,
         columns |-> columns,
         geometryRead |-> TRUE,
         baseCalled |-> FALSE,
         baseArgs |-> <<>>,
         toolkit |-> [width |-> 0, height |-> 0]]

\* itemSize(), for a parent view of width w: the QSize it returns, with the
\* column count it computed on the way.
ItemSize(w) ==
    LET columns == Columns(w)
    IN  [from |-> "itemSize",
         width |-> CDiv(w - (spacing * (columns + 2)), columns),
         height |-> height,
         columns |-> columns,
         geometryRead |-> TRUE,
         baseCalled |-> FALSE,
         baseArgs |-> <<>>,
         toolkit |-> [width |-> 0, height |-> 0]]

\* return QStyledItemDelegate::sizeHint(option, index): the toolkit is asked
\* with the same arguments and its answer t is passed through.
BaseSizeHint(option, index, t) ==
    [from |-> "QStyledItemDelegate::sizeHint", width |-> t.width,
     height |-> t.height, columns |-> 0, geometryRead |-> FALSE,
     baseCalled |-> TRUE, baseArgs |-> <<option, index>>, toolkit |-> t]

\* sizeHint with the test of the index inverted.
SizeHintInverted(option, index, t) ==
    IF ~index.valid THEN ItemSize(viewWidth) ELSE BaseSizeHint(option, index, t)

\* SearchListItemDelegate::sizeHint(option, index), the toolkit answering t
\* if it is asked.
SizeHintResult(option, index, t) ==
    IF index.valid THEN ItemSize(viewWidth) ELSE BaseSizeHint(option, index, t)

-----------------------------------------------------------------------------
(* The painter and the fonts.                                              *)

NoClip == [kind |-> "none", rect |-> NullRect, radius |-> 0]
\* The painter as the view hands it to the delegate.
ViewPainter == [clip |-> NoClip,
                font |-> [weight |-> "Normal", pointSize |-> 9],
                pen |-> "text"]

\* The painter may come with another pen, or clipped to the viewport.
ViewPainters ==
    {ViewPainter,
     [ViewPainter EXCEPT !.pen = "windowText",
                         !.clip = [kind |-> "rect", radius |-> 0,
                                   rect |-> QRect(0, 0, 1450, 900)]]}

\* The two fonts whose QFontMetrics paint reads: the view's font at DemiBold
\* weight (title, summary, details) and the 8 pt font of the synopsis.
DemiBoldFont == [ViewPainter.font EXCEPT !.weight = "DemiBold"]
SynopsisFont == [weight |-> "Normal", pointSize |-> SynopsisPointSize]
MeasuredFonts == {DemiBoldFont, SynopsisFont}
Labels == {"Aired:", "Genres:", "Studios:"}

\* gui::PainterStateSaver: its constructor saves the painter's state on the
\* painter's stack, its destructor restores the state saved last.  Both act
\* on the pair <<state, stack>>.
PainterStateSaverCtor(p, stack) == <<p, Append(stack, p)>>
PainterStateSaverDtor(p, stack) ==
    IF stack = <<>> THEN <<p, stack>>
    ELSE <<stack[Len(stack)], SubSeq(stack, 1, Len(stack) - 1)>>

\* SearchListModel::getAnime(index): the item record of the index's row, or
\* none.
GetAnime(index) ==
    IF index.valid /\ index.row \in Rows THEN "record" ELSE "none"

-----------------------------------------------------------------------------
(* SearchListItemDelegate::paint                                           *)

\* One drawing command: the call, its rectangle, what it draws (a brush, a
\* pixmap, a text), and the font and pen the painter holds at the call.
Op(name, rect, what, p) ==
    [op |-> name, rect |-> rect, what |-> what, font |-> p.font, pen |-> p.pen]

\* The scope of paint's PainterStateSaver: entered at the top of paint, left
\* when paint returns.
\* paint without the saver: nothing is saved on entry.
PaintEnterNoSaver(p, stack) == <<p, stack>>

PaintEnter(p, stack) == PainterStateSaverCtor(p, stack)
PaintLeave(p, stack) == PainterStateSaverDtor(p, stack)

\* QStyleOptionViewItem opt = option: paint draws with a copy of the option
\* it was handed.
PaintOption(option) == option

\* The background chosen with the theme taking precedence.
BackgroundBrushThemeFirst(option, dark) ==
    IF dark THEN "mid"
    ELSE IF option.selected THEN "highlight"
    ELSE "alternateBase"

\* The brush of the card's background.
BackgroundBrush(option, dark) ==
    IF option.selected THEN "highlight"
    ELSE IF dark THEN "mid"
    ELSE "alternateBase"

\* The brush behind the poster.
PosterBrush(dark) == IF dark THEN "dark" ELSE "mid"

\* The width of the label column: the width of "Studios:".
TitlesWidth(widths) == widths["Studios:"]

\* The synopsis always five lines high.
SynopsisHeightUnclipped(left, lineHeight) == lineHeight * SynopsisLines

\* The height of the synopsis rectangle, for what is left of the cell and
\* the line height of the synopsis font.
SynopsisHeight(left, lineHeight) == qMin(left, lineHeight * SynopsisLines)

\* paint's steps in order, for a painter in state p: the rectangles it
\* computes, the painter's state after each block and the commands each
\* block issues.
PaintSteps(option, p, dark, pixmap, heights, widths) ==
    LET opt == PaintOption(option)
        cell == opt.rect
        \* clip and background
        pClip == [p EXCEPT !.clip = [kind |-> "roundedRect", rect |-> cell,
                                     radius |-> CornerRadius]]
        opsBackground ==
            << Op("setClipPath", cell, "roundedRect", pClip),
               Op("fillRect", cell, BackgroundBrush(option, dark), pClip) >>
        \* poster
        posterRect == SetWidth(cell, PosterWidth)
        opsPoster ==
            << Op("fillRect", posterRect, PosterBrush(dark), pClip),
               Op("drawPixmap", posterRect, pixmap, pClip) >>
        rect1 == Adjust(cell, PosterWidth, 0, 0, 0)
        font == pClip.font
        \* title
        titleBar == SetHeight(rect1, TitleHeight)
        titleRect == Adjust(titleBar, Padding, 0, -Padding, 0)
        pTitle == [pClip EXCEPT !.font.weight = "DemiBold"]
        opsTitle ==
            << Op("fillRect", titleBar, "dark", pClip),
               Op("drawText", titleRect, "title", pTitle) >>
        rect2 == Adjust(rect1, Padding, TitleHeight + Padding, -Padding, -Padding)
        \* summary
        summaryRect == SetHeight(rect2, heights[pTitle.font])
        pSummary == [pTitle EXCEPT !.font = font]
        opsSummary == << Op("drawText", summaryRect, "summary", pSummary) >>
        rect3 == Adjust(rect2, 0, RectHeight(summaryRect) + Padding, 0, 0)
        \* details
        pLabels == [pSummary EXCEPT !.font.weight = "DemiBold"]
        lineHeight == heights[pLabels.font]
        titlesRect == SetWidth(SetHeight(rect3, lineHeight * DetailLines),
                               TitlesWidth(widths))
        pValues == [pLabels EXCEPT !.font.weight = "Normal"]
        valuesRect == Adjust(SetHeight(rect3, lineHeight * DetailLines),
                             RectWidth(titlesRect) + Padding, 0, 0, 0)
        opsDetails ==
            << Op("drawText", titlesRect, "Aired:\nGenres:\nStudios:", pLabels),
               Op("drawText", valuesRect, "values", pValues) >>
        rect4 == Adjust(rect3, 0, RectHeight(titlesRect) + Padding, 0, 0)
        \* synopsis
        pSynopsis == [pValues EXCEPT !.pen = "placeholderText",
                                     !.font.pointSize = SynopsisPointSize]
        synopsisRect ==
            SetHeight(rect4, SynopsisHeight(RectHeight(rect4), heights[pSynopsis.font]))
        opsSynopsis == << Op("drawText", synopsisRect, "synopsis", pSynopsis) >>
    IN  [ops45 |-> <<>>,
         ops103 |-> opsBackground \o opsPoster \o opsTitle,
         ops150 |-> opsBackground \o opsPoster \o opsTitle \o opsSummary \o opsDetails,
         ops |-> opsBackground \o opsPoster \o opsTitle \o opsSummary
                     \o opsDetails \o opsSynopsis,
         p45 |-> p, p103 |-> pTitle, p150 |-> pValues, pEnd |-> pSynopsis,
         features |-> opt.features,
         titlesRect |-> titlesRect, valuesRect |-> valuesRect,
         synopsisRect |-> synopsisRect]

\* Where a paint call may fault.  The code calls getAnime through the model
\* pointer (line 45) and reads the item through the pointer getAnime returns
\* (lines 103 and 150) without testing either: with a null pointer each of
\* them is undefined behaviour, which faults there or goes on with whatever
\* was read.  0 stands for a call that returns.
PaintOutcomes(index) ==
    IF index.model = "null" THEN {45, 103, 150, 0}
    ELSE IF GetAnime(index) = "none" THEN {103, 150, 0}
    ELSE {0}

NoDrawn == [faultAt |-> 0, ops |-> <<>>, dirty |-> ViewPainter, features |-> {},
            titlesRect |-> NullRect, valuesRect |-> NullRect,
            synopsisRect |-> NullRect]

\* What a paint call that ends with outcome o leaves behind: the commands
\* issued and the painter's state when the call ended or faulted.
PaintRecord(steps, o) ==
    IF o = 0 THEN
        [faultAt |-> 0, ops |-> steps.ops, dirty |-> steps.pEnd,
         features |-> steps.features,
         titlesRect |-> steps.titlesRect, valuesRect |-> steps.valuesRect,
         synopsisRect |-> steps.synopsisRect]
    ELSE IF o = 45 THEN [NoDrawn EXCEPT !.faultAt = o, !.ops = steps.ops45,
                                        !.dirty = steps.p45]
    ELSE IF o = 103 THEN [NoDrawn EXCEPT !.faultAt = o, !.ops = steps.ops103,
                                         !.dirty = steps.p103,
                                         !.features = steps.features]
    ELSE [NoDrawn EXCEPT !.faultAt = o, !.ops = steps.ops150,
                         !.dirty = steps.p150,
                         !.features = steps.features,
                         !.titlesRect = steps.titlesRect,
                         !.valuesRect = steps.valuesRect]

-----------------------------------------------------------------------------
(* SearchListItemDelegate::initStyleOption                                 *)

\* The feature bits QStyledItemDelegate::initStyleOption may set, depending
\* on the roles the index has data for.
BaseFeatureSets == {{}, {"HasDisplay"}, {"HasDecoration", "Alternate"},
                    {"HasDisplay", "HasDecoration", "HasCheckIndicator"}}

\* QStyledItemDelegate::initStyleOption, setting the bits in set.
BaseInitStyleOption(option, set) ==
    [option EXCEPT !.features = @ \cup set]

\* SearchListItemDelegate::initStyleOption: the option's features afterwards.
InitStyleOptionFeatures(option, set) ==
    (BaseInitStyleOption(option, set).features \ {"HasDisplay"}) \ {"HasDecoration"}

NoStyled == [base |-> {}, features |-> {}]

-----------------------------------------------------------------------------
(* The constructor, and the initial states.                                *)

\* SearchListItemDelegate(): m_pixmap is set only if the image was read.
Constructor(readable) == IF readable THEN "poster" ELSE "null"

InitCommon ==
    /\ m_pixmap = Constructor(imageReadable)
    /\ painterStack = <<>>
    /\ crashed = FALSE
    /\ call = NoCall
    /\ size = NoSize
    /\ drawn = NoDrawn
    /\ styled = NoStyled

\* The initial states of SpecSize: the parent view has any width, the poster
\* was read, the fonts are fixed.
InitSize ==
    /\ imageReadable = TRUE
    /\ InitCommon
    /\ painter0 = ViewPainter
    /\ painter = painter0
    /\ viewWidth \in ViewWidths
    /\ themeDark = FALSE
    /\ fontHeight = [f \in MeasuredFonts |-> 1]
    /\ labelWidth = [l \in Labels |-> 1]

\* The initial states of SpecPaint: the poster was read or not, the theme,
\* the painter and the metrics of the fonts are any, the parent view keeps
\* one width.
InitPaint ==
    /\ imageReadable \in BOOLEAN
    /\ InitCommon
    /\ painter0 \in ViewPainters
    /\ painter = painter0
    /\ viewWidth = MaxViewWidth
    /\ themeDark \in BOOLEAN
    /\ fontHeight \in [MeasuredFonts -> 1..MaxLineHeight]
    /\ labelWidth \in [Labels -> 1..MaxLabelWidth]

-----------------------------------------------------------------------------
(* The actions.  The handlers are called from the GUI thread's event loop, *)
(* one at a time: call.name = "none" while the thread is in the event loop *)
(* and names the handler once one has run, until the view has taken what   *)
(* the handler returned.                                                   *)

\* The parent view is resized to width w.
ResizeView(w) ==
    /\ ~crashed
    /\ call.name = "none"
    /\ w # viewWidth
    /\ viewWidth' = w
    /\ UNCHANGED <<m_pixmap, imageReadable, themeDark, painter, painterStack,
                   painter0, fontHeight, labelWidth, crashed, call, size,
                   drawn, styled>>

\* The theme is switched.
SetTheme(dark) ==
    /\ ~crashed
    /\ call.name = "none"
    /\ themeDark # dark
    /\ themeDark' = dark
    /\ UNCHANGED <<m_pixmap, imageReadable, viewWidth, painter, painterStack,
                   painter0, fontHeight, labelWidth, crashed, call, size,
                   drawn, styled>>

\* sizeHint(option, index), the toolkit answering t if it is asked
SizeHint(option, index, t) ==
    /\ ~crashed
    /\ call.name = "none"
    /\ call' = [name |-> "sizeHint", option |-> option, index |-> index]
    /\ size' = SizeHintResult(option, index, t)
    /\ UNCHANGED <<m_pixmap, imageReadable, viewWidth, themeDark, painter,
                   painterStack, painter0, fontHeight, labelWidth, crashed,
                   drawn, styled>>

\* initStyleOption(&option, index), the base class setting the bits in set
InitStyleOption(option, index, set) ==
    /\ ~crashed
    /\ call.name = "none"
    /\ call' = [name |-> "initStyleOption", option |-> option, index |-> index]
    /\ styled' = [base |-> BaseInitStyleOption(option, set).features,
                  features |-> InitStyleOptionFeatures(option, set)]
    /\ UNCHANGED <<m_pixmap, imageReadable, viewWidth, themeDark, painter,
                   painterStack, painter0, fontHeight, labelWidth, crashed,
                   size, drawn>>

\* paint(painter, option, index), ending with outcome o
Paint(option, index, o) ==
    /\ ~crashed
    /\ call.name = "none"
    /\ o \in PaintOutcomes(index)
    /\ LET entered == PaintEnter(painter, painterStack)
           steps == PaintSteps(option, entered[1], themeDark, m_pixmap,
                               fontHeight, labelWidth)
           rec == PaintRecord(steps, o)
           left == PaintLeave(rec.dirty, entered[2])
       IN  /\ call' = [name |-> "paint", option |-> option, index |-> index]
           /\ drawn' = rec
           /\ crashed' = (o # 0)
           /\ painter' = IF o = 0 THEN left[1] ELSE rec.dirty
           /\ painterStack' = IF o = 0 THEN left[2] ELSE entered[2]
    /\ UNCHANGED <<m_pixmap, imageReadable, viewWidth, themeDark, painter0,
                   fontHeight, labelWidth, size, styled>>

\* The view has taken what the handler returned; the thread is back in the
\* event loop.
Return ==
    /\ ~crashed
    /\ call.name # "none"
    /\ call' = NoCall
    /\ size' = NoSize
    /\ drawn' = NoDrawn
    /\ styled' = NoStyled
    /\ UNCHANGED <<m_pixmap, imageReadable, viewWidth, themeDark, painter,
                   painterStack, painter0, fontHeight, labelWidth, crashed>>

NextSize ==
    \/ \E w \in ViewWidths : ResizeView(w)
    \/ \E option \in Options, index \in Indexes, t \in ToolkitSizes :
           SizeHint(option, index, t)
    \/ Return

NextPaint ==
    \/ \E dark \in BOOLEAN : SetTheme(dark)
    \/ \E option \in StyleOptions, index \in Indexes, set \in BaseFeatureSets :
           InitStyleOption(option, index, set)
    \/ \E option \in Options, index \in Indexes, o \in {0, 45, 103, 150} :
           Paint(option, index, o)
    \/ Return

SpecSize == InitSize /\ [][NextSize]_vars
SpecPaint == InitPaint /\ [][NextPaint]_vars

-----------------------------------------------------------------------------
(* The properties.                                                         *)

\* The column count by the thresholds of the specification.
ThresholdColumns(w) ==
    IF w <= 720 THEN 1 ELSE IF w <= 1080 THEN 2 ELSE IF w <= 1440 THEN 3 ELSE 4

\* A sizeHint call on a valid index has returned.
HintedValid == call.name = "sizeHint" /\ call.index.valid
\* A paint call has returned.
Painted == call.name = "paint" /\ drawn.faultAt = 0

\* C1: for a valid index, sizeHint returns height 210 and width
\* (W - 18*(columns+2)) / columns, the quotient truncated, where W is the
\* parent view's width and columns the count itemSize computed for W;
\* neither depends on the option or on which valid index was passed.
C1_SizeHintOfValidIndex ==
    HintedValid =>
        LET c == size.columns
            n == viewWidth - 18 * (c + 2)
            q == size.width
        IN  /\ c = ThresholdColumns(viewWidth)
            /\ size.height = 210
            /\ n >= 0 => (q * c <= n /\ n < (q + 1) * c)
            /\ n < 0 => (q * c >= n /\ n > (q - 1) * c)

\* C1's case: a hint for a four-column view whose width does not divide.
C1_Witness ==
    /\ HintedValid
    /\ call.option.selected
    /\ size.columns = 4
    /\ size.width * 4 < viewWidth - 108

\* C2: the column count is in 1..4, is 1 up to 720, 2 up to 1080, 3 up to
\* 1440 and 4 beyond, and never falls when the view grows.
C2_ColumnThresholds ==
    /\ [](HintedValid =>
            /\ size.columns \in 1..4
            /\ (viewWidth <= 720) => size.columns = 1
            /\ (720 < viewWidth /\ viewWidth <= 1080) => size.columns = 2
            /\ (1080 < viewWidth /\ viewWidth <= 1440) => size.columns = 3
            /\ (viewWidth > 1440) => size.columns = 4)
    /\ [][viewWidth' >= viewWidth
            => ItemSize(viewWidth').columns >= ItemSize(viewWidth).columns]_vars

\* C2's case: a hint taken one pixel past a threshold.
C2_Witness == HintedValid /\ viewWidth = 1081 /\ size.columns = 3

\* C3: for an invalid index sizeHint returns what the toolkit's sizeHint
\* answers for the same option and index and does not read the view's
\* geometry; for a valid index the toolkit is not asked.
C3_InvalidIndexFallsBack ==
    call.name = "sizeHint" =>
        /\ ~call.index.valid =>
              /\ size.baseCalled
              /\ size.baseArgs = <<call.option, call.index>>
              /\ size.width = size.toolkit.width
              /\ size.height = size.toolkit.height
              /\ ~size.geometryRead
              /\ size.from # "itemSize"
        /\ call.index.valid => ~size.baseCalled /\ size.from = "itemSize"

\* C3's case: a hint for an invalid index, the toolkit answering a size.
C3_Witness ==
    /\ call.name = "sizeHint"
    /\ ~call.index.valid
    /\ size.toolkit = [width |-> 1, height |-> 0]
    /\ size.width = 1

\* C10: for a view of width W >= 0 a full row of hinted cells with its gaps
\* fits: columns*width + 18*(columns+2) <= W, and less than columns pixels
\* are left over.
C10_RowFits ==
    (HintedValid /\ viewWidth >= 0) =>
        LET used == size.columns * size.width + 18 * (size.columns + 2)
        IN  used <= viewWidth /\ viewWidth - used < size.columns

\* C10's case: a four-column row that leaves three pixels over.
C10_Witness ==
    /\ HintedValid
    /\ size.columns = 4
    /\ viewWidth - (4 * size.width + 108) = 3

\* C4: paint leaves the painter as it found it: once a paint call has
\* returned, and so after any sequence of paint calls, the painter's clip,
\* font and pen are those the view handed out and nothing is left on the
\* painter's stack.
C4_PainterRestored ==
    ~crashed => painter = painter0 /\ painterStack = <<>>

\* C4's case: a paint call that clipped to the card, drew the title in
\* DemiBold and ended with the 8 pt font and the placeholder pen has returned.
C4_Witness ==
    /\ Painted
    /\ painter = painter0
    /\ drawn.dirty.clip.kind = "roundedRect"
    /\ drawn.dirty.font.pointSize = 8
    /\ drawn.dirty.pen = "placeholderText"
    /\ \E i \in 1..Len(drawn.ops) : drawn.ops[i].font.weight = "DemiBold"

\* C5: whatever is missing (the poster image, the index's model, the item
\* record), paint runs all its steps and returns, and an image that could
\* not be read leaves m_pixmap empty.
C5_PaintNeverFaults ==
    /\ call.name = "paint" =>
           /\ drawn.faultAt = 0
           /\ ~crashed
           /\ Len(drawn.ops) > 0
           /\ drawn.ops[Len(drawn.ops)].what = "synopsis"
    /\ ~imageReadable => m_pixmap = "null"

\* C6: the option paint draws with has HasDisplay and HasDecoration cleared,
\* and initStyleOption clears exactly these two bits of what the base class
\* set.
C6_DisplayFlagsStripped ==
    /\ (call.name = "paint" /\ drawn.faultAt # 45) =>
           drawn.features \cap {"HasDisplay", "HasDecoration"} = {}
    /\ call.name = "initStyleOption" =>
           styled.features = styled.base \ {"HasDisplay", "HasDecoration"}

\* The fills of the whole cell with brush b, among the commands ops.
CellFills(ops, cell, b) ==
    {i \in 1..Len(ops) : ops[i].op = "fillRect" /\ ops[i].rect = cell
                             /\ ops[i].what = b}

\* C7: a paint call that reaches its drawing first clips to the cell's
\* rounded rectangle, then fills the cell, once, with the highlight brush if
\* the cell is selected, else with mid in the dark theme and alternateBase
\* in the light one; every other command comes later.
C7_BackgroundFill ==
    (call.name = "paint" /\ drawn.faultAt # 45) =>
        LET cell == call.option.rect
            brush == IF call.option.selected THEN "highlight"
                     ELSE IF themeDark THEN "mid" ELSE "alternateBase"
        IN  /\ drawn.ops[1].op = "setClipPath"
            /\ drawn.ops[1].rect = cell
            /\ drawn.dirty.clip = [kind |-> "roundedRect", rect |-> cell,
                                   radius |-> 4]
            /\ CellFills(drawn.ops, cell, brush) = {2}
            /\ \A i \in 1..Len(drawn.ops) :
                   drawn.ops[i].op \in {"drawPixmap", "drawText"} => i > 2

\* C7's case: a selected cell as narrow as the poster, painted in the dark
\* theme.
C7_Witness ==
    /\ Painted
    /\ call.option.selected
    /\ themeDark
    /\ RectWidth(call.option.rect) = 140
    /\ drawn.ops[2].what = "highlight"

\* The widest of the three labels.
WidestLabel == CHOOSE w \in {labelWidth[l] : l \in Labels} :
                   \A l \in Labels : labelWidth[l] <= w

\* C8: the label column is as wide as the widest of the three labels, the
\* value column starts label width + 8 px right of it, and both are three
\* lines high.
C8_LabelColumnWidest ==
    (call.name = "paint" /\ drawn.faultAt \in {0, 150}) =>
        LET h == fontHeight[DemiBoldFont]
        IN  /\ RectWidth(drawn.titlesRect) = WidestLabel
            /\ drawn.valuesRect.x1
                   = drawn.titlesRect.x1 + RectWidth(drawn.titlesRect) + 8
            /\ RectHeight(drawn.titlesRect) = 3 * h
            /\ RectHeight(drawn.valuesRect) = 3 * h

\* C9: the synopsis rectangle is as high as what is left of the cell below
\* the title, summary and details, but at most 5 lines of the 8 pt font, and
\* ends no lower than 8 px above the cell's bottom edge.
C9_SynopsisClipped ==
    Painted =>
        LET cell == call.option.rect
            hd == fontHeight[DemiBoldFont]
            hs == fontHeight[SynopsisFont]
            top == cell.y1 + (24 + 8) + (hd + 8) + (3 * hd + 8)
            left == (cell.y2 - 8) - top + 1
            syn == drawn.synopsisRect
        IN  /\ syn.y1 = top
            /\ RectHeight(syn) = IF left < 5 * hs THEN left ELSE 5 * hs
            /\ RectHeight(syn) <= 5 * hs
            /\ syn.y2 <= cell.y2 - 8

\* C9's case: a cell with less than five lines left for the synopsis, and
\* some left.
C9_Witness ==
    /\ Painted
    /\ RectHeight(drawn.synopsisRect) > 0
    /\ RectHeight(drawn.synopsisRect) < 5 * fontHeight[SynopsisFont]
    /\ drawn.synopsisRect.y2 = call.option.rect.y2 - 8

=============================================================================
